---------------------------- MODULE Spec2Model ----------------------------
(***************************************************************************)
(* Model of generate_icon.py: the icon renderer create_voxmatrix_icon and  *)
(* the batch driver main.                                                  *)
(*                                                                         *)
(* An image is a record [w, h, px] where px maps every pixel <<x, y>> of   *)
(* the image to its <<r, g, b, a>> value.  Floating point expressions of   *)
(* the source are computed exactly in integer arithmetic; the integer       *)
(* forms agree with the IEEE double results for every size below 180.      *)
(*                                                                         *)
(* Pillow calls are modelled by what Pillow does on an RGBA image drawn    *)
(* through ImageDraw.Draw(img): line() writes the ink into the covered     *)
(* pixels, all four channels, without blending; a line of width 1 covers   *)
(* both end points; a wider line is the polygon ImagingDrawWideLine builds *)
(* (end points displaced by the rounded half width) filled scan line by    *)
(* scan line; putalpha() replaces the alpha band by the mask.  The corner  *)
(* arcs of rounded_rectangle are taken as the discs of the corner radius.  *)
(***************************************************************************)
EXTENDS Integers, Sequences, FiniteSets

VARIABLES
    pc,        \* position inside create_voxmatrix_icon
    size,      \* its argument
    img,       \* the image being drawn
    mask,      \* the mask image
    returned,  \* images returned by the calls completed so far, in order
    calls,     \* number of calls started
    mpc,       \* position inside main
    idx,       \* index of the current entry of ICON_SIZES
    icon,      \* width and height of the icon rendered for the entry
    padding,   \* padding computed by the render of the entry
    dirs,      \* directories that exist
    files,     \* files that exist, with their contents
    out,       \* lines printed
    dirs0,     \* directories that existed when main started
    files0     \* files that existed when main started

vars == <<pc, size, img, mask, returned, calls,
          mpc, idx, icon, padding, dirs, files, out, dirs0, files0>>

mvars == <<mpc, idx, icon, padding, dirs, files, out, dirs0, files0>>
rvars == <<pc, size, img, mask, returned, calls>>

\* Largest size rendered pixel by pixel by a single call.
MaxSize == 36
\* Sizes and number of calls in the runs of several calls.
MinCallSize == 6
MaxCallSize == 8
MaxCalls == 3

Abs(a) == IF a < 0 THEN -a ELSE a
Sgn(a) == IF a > 0 THEN 1 ELSE IF a < 0 THEN -1 ELSE 0
Min2(a, b) == IF a <= b THEN a ELSE b
Max2(a, b) == IF a >= b THEN a ELSE b

Pix(n) == (0 .. n - 1) \X (0 .. n - 1)

NoImage == [w |-> 0, h |-> 0, px |-> <<>>]

\* Image.new('RGBA', (size, size), (0, 0, 0, 0))
Transparent == <<0, 0, 0, 0>>
\* a buffer kept from the previous call and not cleared
NewImageReused(n) ==
    [w |-> n, h |-> n,
     px |-> [p \in Pix(n) |->
                IF p \in DOMAIN img.px THEN img.px[p] ELSE Transparent]]

NewImage(n) == [w |-> n, h |-> n, px |-> [p \in Pix(n) |-> Transparent]]

-----------------------------------------------------------------------------
(* Dimensions: lines 28-33, 50, 60-67, 79, 88.                             *)

\* round(size * 0.1) in place of int(size * 0.1)
PaddingRounded(n) == (n + 5) \div 10

\* int(size * 0.1): truncation of the product, never rounding to nearest
Padding(n) == n \div 10
IconSize(n) == n - (Padding(n) * 2)
Center(n) == n \div 2
Radius(n) == IconSize(n) \div 2
GridSpacing(n) == Max2(4, n \div 16)
VThickness(n) == Max2(2, n \div 12)
VTopY(n) == n \div 4
VBottomY(n) == (3 * n) \div 4
VLeftX(n) == (35 * n) \div 100
VRightX(n) == (65 * n) \div 100
VCenterX(n) == n \div 2
GlowThickness(n) == VThickness(n) + 4
CornerRadius(n) == n \div 8

grid_color == <<255, 255, 255, 30>>
v_color == <<255, 255, 255, 255>>
glow_color == <<100, 200, 255, 100>>

-----------------------------------------------------------------------------
(* Gradient disc: lines 36-46.                                             *)

Dist2(p, n) == (p[1] - Center(n)) * (p[1] - Center(n))
               + (p[2] - Center(n)) * (p[2] - Center(n))

\* dist < radius in place of dist <= radius
InDiscStrict(p, n) == Dist2(p, n) < Radius(n) * Radius(n)

\* dist <= radius, dist = math.sqrt(Dist2)
InDisc(p, n) == Dist2(p, n) <= Radius(n) * Radius(n)

\* floor(c * sqrt(d2) / r) for c >= 0, r > 0 and d2 <= r * r (ratio <= 1)
FloorScaled(c, d2, r) ==
    CHOOSE k \in 0 .. c :
        /\ k * k * r * r <= c * c * d2
        /\ (k + 1) * (k + 1) * r * r > c * c * d2

\* ceil(c * sqrt(d2) / r) for c >= 0, r > 0
CeilScaled(c, d2, r) ==
    LET k == FloorScaled(c, d2, r)
    IN  IF k * k * r * r = c * c * d2 THEN k ELSE k + 1

\* int(base + delta * ratio), ratio = dist / radius; the value is positive,
\* so int() is the floor
Channel(base, delta, d2, r) ==
    IF delta >= 0 THEN base + FloorScaled(delta, d2, r)
                  ELSE base - CeilScaled(-delta, d2, r)

GradientColor(p, n) ==
    <<Channel(100, 138 - 100, Dist2(p, n), Radius(n)),
      Channel(150, 43 - 150, Dist2(p, n), Radius(n)),
      Channel(255, -60, Dist2(p, n), Radius(n)),
      255>>

\* dist / radius divides by zero at the first pixel of the disc
GradientRaises(n) == Radius(n) = 0 /\ \E p \in Pix(n) : InDisc(p, n)

Gradient(im, n) ==
    [im EXCEPT !.px = [p \in Pix(n) |->
        IF InDisc(p, n) THEN GradientColor(p, n) ELSE im.px[p]]]

-----------------------------------------------------------------------------
(* ImageDraw.line: lines 54, 56, 71-75, 80-83.                             *)

\* the ink composited over what is there, as a blending draw would do
PutInkBlend(im, covered, ink) ==
    [im EXCEPT !.px = [p \in DOMAIN im.px |->
        IF p \in covered
        THEN <<(ink[1] * ink[4] + im.px[p][1] * (255 - ink[4])) \div 255,
               (ink[2] * ink[4] + im.px[p][2] * (255 - ink[4])) \div 255,
               (ink[3] * ink[4] + im.px[p][3] * (255 - ink[4])) \div 255,
               ink[4] + (im.px[p][4] * (255 - ink[4])) \div 255>>
        ELSE im.px[p]]]

\* the ink is stored in the covered pixels, no blending with what is there
PutInk(im, covered, ink) ==
    [im EXCEPT !.px = [p \in DOMAIN im.px |->
        IF p \in covered THEN ink ELSE im.px[p]]]

\* width 1, axis-parallel: every pixel from a to b, both ends included,
\* clipped to the n x n image
ThinLine(a, b, n) ==
    {p \in Pix(n) :
        /\ Min2(a[1], b[1]) <= p[1] /\ p[1] <= Max2(a[1], b[1])
        /\ Min2(a[2], b[2]) <= p[2] /\ p[2] <= Max2(a[2], b[2])}

\* ROUND_UP(q / (2 * sqrt(h2))) for q >= 0: floor(f + 0.5)
RoundUpHalf(q, h2) ==
    CHOOSE k \in 0 .. q + 1 :
        /\ (k = 0 \/ (2 * k - 1) * (2 * k - 1) * h2 <= q * q)
        /\ (2 * k + 1) * (2 * k + 1) * h2 > q * q

\* ROUND_DOWN(q / (2 * sqrt(h2))) for q >= 0: ceil(f - 0.5)
RoundDownHalf(q, h2) ==
    CHOOSE k \in 0 .. q + 1 :
        /\ (2 * k + 1) * (2 * k + 1) * h2 >= q * q
        /\ (k = 0 \/ (2 * k - 1) * (2 * k - 1) * h2 < q * q)

\* the four corners of the polygon of a line of width w > 1 from a to b
WideLineVertices(a, b, w) ==
    LET dx == b[1] - a[1]
        dy == b[2] - a[2]
        h2 == dx * dx + dy * dy
        dxmin == Sgn(dy) * RoundUpHalf((w - 1) * Abs(dy), h2)
        dxmax == Sgn(dy) * RoundDownHalf((w - 1) * Abs(dy), h2)
        dymin == Sgn(dx) * RoundUpHalf((w - 1) * Abs(dx), h2)
        dymax == Sgn(dx) * RoundDownHalf((w - 1) * Abs(dx), h2)
    IN  << <<a[1] - dxmin, a[2] + dymax>>,
           <<b[1] - dxmin, b[2] + dymax>>,
           <<b[1] + dxmax, b[2] - dymin>>,
           <<a[1] + dxmax, a[2] - dymin>> >>

\* x of the edge from a to b on scan line y, as a fraction <<num, den>>,
\* den > 0
EdgeX(a, b, y) ==
    LET dy == b[2] - a[2]
        num == a[1] * dy + (y - a[2]) * (b[1] - a[1])
    IN  IF dy > 0 THEN <<num, dy>> ELSE <<-num, -dy>>

FracLeq(f, g) == f[1] * g[2] <= g[1] * f[2]

\* ROUND_UP of a fraction: half away from zero
RoundUpFrac(f) ==
    LET k == (2 * Abs(f[1]) + f[2]) \div (2 * f[2])
    IN  IF f[1] >= 0 THEN k ELSE -k

\* ROUND_DOWN of a fraction: half towards zero
RoundDownFrac(f) ==
    LET k == -((f[2] - 2 * Abs(f[1])) \div (2 * f[2]))
    IN  IF f[1] >= 0 THEN k ELSE -k

RECURSIVE InsertSorted(_, _)
InsertSorted(f, s) ==
    IF s = <<>> THEN <<f>>
    ELSE IF FracLeq(f, Head(s)) THEN <<f>> \o s
    ELSE <<Head(s)>> \o InsertSorted(f, Tail(s))

RECURSIVE SortFracs(_)
SortFracs(s) ==
    IF s = <<>> THEN <<>> ELSE InsertSorted(Head(s), SortFracs(Tail(s)))

\* polygon_generic on the closed polygon vs drawn into an n x n image
PolygonPixels(vs, n) ==
    LET m == Len(vs)
        From(i) == vs[i]
        To(i) == vs[(i % m) + 1]
        EYmin(i) == Min2(From(i)[2], To(i)[2])
        EYmax(i) == Max2(From(i)[2], To(i)[2])
        flat == {i \in 1 .. m : From(i)[2] = To(i)[2]}
        ys == {vs[i][2] : i \in 1 .. m}
        ymin0 == CHOOSE y \in ys \cup {n - 1} : \A z \in ys \cup {n - 1} : y <= z
        ymax0 == CHOOSE y \in ys \cup {0} : \A z \in ys \cup {0} : y >= z
        ymin == Max2(ymin0, 0)
        ymax == Min2(ymax0, n)
        Hits(i, y) ==
            IF i \in flat \/ y < EYmin(i) \/ y > EYmax(i) THEN <<>>
            ELSE IF y = EYmax(i) /\ y < ymax
                 THEN <<EdgeX(From(i), To(i), y), EdgeX(From(i), To(i), y)>>
                 ELSE <<EdgeX(From(i), To(i), y)>>
        Row(y) == Hits(1, y) \o Hits(2, y) \o Hits(3, y) \o Hits(4, y)
        Spans(y) ==
            LET xx == SortFracs(Row(y))
            IN  {<<Min2(RoundUpFrac(xx[2 * i - 1]), RoundDownFrac(xx[2 * i])),
                   Max2(RoundUpFrac(xx[2 * i - 1]), RoundDownFrac(xx[2 * i]))>> :
                    i \in 1 .. (Len(xx) \div 2)}
        FlatRow(y) ==
            {<<Min2(From(i)[1], To(i)[1]), Max2(From(i)[1], To(i)[1])>> :
                i \in {j \in flat : From(j)[2] = y}}
        RowSpans(y) ==
            IF ymin <= y /\ y <= ymax THEN Spans(y) \cup FlatRow(y)
                                      ELSE FlatRow(y)
    IN  UNION {
            {<<x, y>> : x \in {z \in 0 .. n - 1 :
                                 \E sp \in RowSpans(y) : sp[1] <= z /\ z <= sp[2]}} :
            y \in 0 .. n - 1}

\* ImagingDrawWideLine for width > 1: Pillow rasterises the line as the
\* polygon of WideLineVertices, a single point when both ends coincide
WideLine(a, b, w, n) ==
    IF a = b THEN {a} \cap Pix(n)
    ELSE PolygonPixels(WideLineVertices(a, b, w), n)

LinePixels(a, b, w, n) ==
    IF w <= 1 THEN ThinLine(a, b, n) ELSE WideLine(a, b, w, n)

DrawLine(im, a, b, ink, w) == PutInk(im, LinePixels(a, b, w, im.w), ink)

-----------------------------------------------------------------------------
(* Grid, glyph and glow: lines 48-83.                                      *)

\* range(padding, size - padding, grid_spacing)
GridRange(n) ==
    {i \in Padding(n) .. (n - Padding(n) - 1) :
        (i - Padding(n)) % GridSpacing(n) = 0}

GridPixels(n) ==
    UNION {LinePixels(<<i, Padding(n)>>, <<i, n - Padding(n)>>, 1, n)
             \cup LinePixels(<<Padding(n), i>>, <<n - Padding(n), i>>, 1, n) :
           i \in GridRange(n)}

\* every grid line is drawn with the same ink, so the order of the lines
\* does not show in the result
Grid(im, n) == PutInk(im, GridPixels(n), grid_color)

LeftStroke(w, n) ==
    LinePixels(<<VLeftX(n), VTopY(n)>>, <<VCenterX(n), VBottomY(n)>>, w, n)
RightStroke(w, n) ==
    LinePixels(<<VRightX(n), VTopY(n)>>, <<VCenterX(n), VBottomY(n)>>, w, n)

VPixels(n) == LeftStroke(VThickness(n), n) \cup RightStroke(VThickness(n), n)
GlowPixels(n) ==
    LeftStroke(GlowThickness(n), n) \cup RightStroke(GlowThickness(n), n)

Glyph(im, n) ==
    LET left == DrawLine(im, <<VLeftX(n), VTopY(n)>>,
                         <<VCenterX(n), VBottomY(n)>>, v_color, VThickness(n))
    IN  DrawLine(left, <<VRightX(n), VTopY(n)>>,
                 <<VCenterX(n), VBottomY(n)>>, v_color, VThickness(n))

\* the glow drawn beneath the solid strokes, as a halo
GlowUnder(im, n) ==
    Glyph(DrawLine(DrawLine(im, <<VLeftX(n), VTopY(n)>>,
                            <<VCenterX(n), VBottomY(n)>>, glow_color,
                            GlowThickness(n)),
                   <<VRightX(n), VTopY(n)>>, <<VCenterX(n), VBottomY(n)>>,
                   glow_color, GlowThickness(n)), n)

Glow(im, n) ==
    LET left == DrawLine(im, <<VLeftX(n), VTopY(n)>>,
                         <<VCenterX(n), VBottomY(n)>>, glow_color,
                         GlowThickness(n))
    IN  DrawLine(left, <<VRightX(n), VTopY(n)>>,
                 <<VCenterX(n), VBottomY(n)>>, glow_color, GlowThickness(n))

-----------------------------------------------------------------------------
(* Mask: lines 86-92.                                                      *)

\* rounded_rectangle([0, 0, n, n], radius = r, fill = 255) on a mask of
\* zeros: with r = 0 the whole rectangle; else the three rectangles between
\* the corners and a quarter disc of radius r in each corner square
InRoundedRect(p, n, r) ==
    LET cx == IF p[1] <= r THEN r ELSE IF p[1] >= n - r THEN n - r ELSE p[1]
        cy == IF p[2] <= r THEN r ELSE IF p[2] >= n - r THEN n - r ELSE p[2]
    IN  \/ r = 0
        \/ cx = p[1]
        \/ cy = p[2]
        \/ (p[1] - cx) * (p[1] - cx) + (p[2] - cy) * (p[2] - cy) <= r * r

RoundedMask(n) ==
    [w |-> n, h |-> n,
     px |-> [p \in Pix(n) |->
                IF InRoundedRect(p, n, CornerRadius(n)) THEN 255 ELSE 0]]

\* the mask applied only where it is set
PutAlphaWhereSet(im, m) ==
    [im EXCEPT !.px = [p \in DOMAIN im.px |->
        <<im.px[p][1], im.px[p][2], im.px[p][3],
          IF m.px[p] = 255 THEN 255 ELSE im.px[p][4]>>]]

\* img.putalpha(mask): the alpha band becomes the mask, colours stay
PutAlpha(im, m) ==
    [im EXCEPT !.px = [p \in DOMAIN im.px |->
        <<im.px[p][1], im.px[p][2], im.px[p][3], m.px[p]>>]]

-----------------------------------------------------------------------------
(* create_voxmatrix_icon as a sequence of steps: lines 20-94.              *)

NewStep ==
    /\ pc = "start"
    /\ img' = NewImage(size)
    /\ pc' = "gradient"
    /\ UNCHANGED <<size, mask, returned, calls, mvars>>

GradientStep ==
    /\ pc = "gradient"
    /\ IF GradientRaises(size)
       THEN pc' = "raised" /\ img' = img
       ELSE pc' = "grid" /\ img' = Gradient(img, size)
    /\ UNCHANGED <<size, mask, returned, calls, mvars>>

GridStep ==
    /\ pc = "grid"
    /\ img' = Grid(img, size)
    /\ pc' = "glyph"
    /\ UNCHANGED <<size, mask, returned, calls, mvars>>

GlyphStep ==
    /\ pc = "glyph"
    /\ img' = Glyph(img, size)
    /\ pc' = "glow"
    /\ UNCHANGED <<size, mask, returned, calls, mvars>>

GlowStep ==
    /\ pc = "glow"
    /\ img' = Glow(img, size)
    /\ pc' = "mask"
    /\ UNCHANGED <<size, mask, returned, calls, mvars>>

MaskStep ==
    /\ pc = "mask"
    /\ mask' = RoundedMask(size)
    /\ img' = PutAlpha(img, RoundedMask(size))
    /\ pc' = "return"
    /\ UNCHANGED <<size, returned, calls, mvars>>

ReturnStep ==
    /\ pc = "return"
    /\ returned' = Append(returned, img)
    /\ pc' = "done"
    /\ UNCHANGED <<size, img, mask, calls, mvars>>

\* a later call of the function, with any size
NextCall ==
    /\ pc \in {"done", "raised"}
    /\ calls < MaxCalls
    /\ calls' = calls + 1
    /\ size' \in MinCallSize .. MaxCallSize
    /\ pc' = "start"
    /\ UNCHANGED <<img, mask, returned, mvars>>

MainIdle ==
    /\ mpc = "idle" /\ idx = 0 /\ icon = <<0, 0>> /\ padding = 0
    /\ dirs = {} /\ files = <<>> /\ out = <<>> /\ dirs0 = {} /\ files0 = <<>>

InitRender ==
    /\ pc = "start"
    /\ size \in 1 .. MaxSize
    /\ img = NoImage
    /\ mask = NoImage
    /\ returned = <<>>
    /\ calls = 1
    /\ MainIdle

Render ==
    \/ NewStep
    \/ GradientStep
    \/ GridStep
    \/ GlyphStep
    \/ GlowStep
    \/ MaskStep
    \/ ReturnStep

Spec == InitRender /\ [][Render]_vars

InitCalls ==
    /\ pc = "start"
    /\ size \in MinCallSize .. MaxCallSize
    /\ img = NoImage
    /\ mask = NoImage
    /\ returned = <<>>
    /\ calls = 1
    /\ MainIdle

NextCalls == Render \/ NextCall

SpecCalls == InitCalls /\ [][NextCalls]_vars

-----------------------------------------------------------------------------
(* main: lines 96-117.                                                     *)

ICON_SIZES ==
    << [folder |-> "mdpi", size |-> 48],
       [folder |-> "hdpi", size |-> 72],
       [folder |-> "xhdpi", size |-> 96],
       [folder |-> "xxhdpi", size |-> 144],
       [folder |-> "xxxhdpi", size |-> 192] >>

NumEntries == Len(ICON_SIZES)

\* base_path, and os.path.join(base_path, f'mipmap-{folder}')
BasePath == <<"res">>
MipmapPath(folder) == <<"res", "mipmap", folder>>
\* every icon saved under the base directory itself
OutputPathFlat(folder) == <<BasePath, "ic_launcher.png">>

\* os.path.join(mipmap_path, 'ic_launcher.png')
OutputPath(folder) == <<MipmapPath(folder), "ic_launcher.png">>

MipmapDirs == {MipmapPath(ICON_SIZES[i].folder) : i \in 1 .. NumEntries}

\* width and height of the image create_voxmatrix_icon(n) returns: those
\* given to Image.new, no drawing step resizes the image
ReturnedSize(n) == <<n, n>>

\* create_voxmatrix_icon(n) raises instead of returning
RenderRaises(n) == GradientRaises(n)

WithFile(fs, path, content) ==
    [q \in DOMAIN fs \cup {path} |-> IF q = path THEN content ELSE fs[q]]
WithoutFile(fs, path) == [q \in DOMAIN fs \ {path} |-> fs[q]]

Entry == ICON_SIZES[idx]

MainStart ==
    /\ mpc = "begin"
    /\ out' = Append(out, <<"generating">>)
    /\ idx' = 1
    /\ mpc' = "render"
    /\ UNCHANGED <<icon, padding, dirs, files, dirs0, files0, rvars>>

MainRender ==
    /\ mpc = "render"
    /\ IF RenderRaises(Entry.size)
       THEN mpc' = "crashed" /\ UNCHANGED <<icon, padding>>
       ELSE /\ icon' = ReturnedSize(Entry.size)
            /\ padding' = Padding(Entry.size)
            /\ mpc' = "makedirs"
    /\ UNCHANGED <<idx, dirs, files, out, dirs0, files0, rvars>>

\* os.makedirs(mipmap_path, exist_ok=True) creates the missing ancestors too
MainMakedirs ==
    /\ mpc = "makedirs"
    /\ dirs' = dirs \cup {BasePath, MipmapPath(Entry.folder)}
    /\ mpc' = "save"
    /\ UNCHANGED <<idx, icon, padding, files, out, dirs0, files0, rvars>>

\* the failure caught and the entry skipped
MainMakedirsSkips ==
    /\ mpc = "makedirs"
    /\ IF idx < NumEntries
       THEN idx' = idx + 1 /\ mpc' = "render"
       ELSE idx' = idx /\ mpc' = "complete"
    /\ UNCHANGED <<icon, padding, dirs, files, out, dirs0, files0, rvars>>

\* os.makedirs raises OSError: nothing catches it
MainMakedirsFails ==
    /\ mpc = "makedirs"
    /\ mpc' = "crashed"
    /\ UNCHANGED <<idx, icon, padding, dirs, files, out, dirs0, files0, rvars>>

MainSave ==
    /\ mpc = "save"
    /\ files' = WithFile(files, OutputPath(Entry.folder), icon)
    /\ mpc' = "print"
    /\ UNCHANGED <<idx, icon, padding, dirs, out, dirs0, files0, rvars>>

\* icon.save raises: the file of this entry is left as it was, or
\* truncated, or removed
MainSaveFails ==
    /\ mpc = "save"
    /\ \/ files' = files
       \/ files' = WithFile(files, OutputPath(Entry.folder), "partial")
       \/ files' = WithoutFile(files, OutputPath(Entry.folder))
    /\ mpc' = "crashed"
    /\ UNCHANGED <<idx, icon, padding, dirs, out, dirs0, files0, rvars>>

MainPrint ==
    /\ mpc = "print"
    /\ out' = Append(out, <<"created", Entry.folder, Entry.size>>)
    /\ IF idx < NumEntries
       THEN idx' = idx + 1 /\ mpc' = "render"
       ELSE idx' = idx /\ mpc' = "complete"
    /\ UNCHANGED <<icon, padding, dirs, files, dirs0, files0, rvars>>

MainComplete ==
    /\ mpc = "complete"
    /\ out' = out \o << <<"complete">>, <<"saved to">> >>
    /\ mpc' = "exit"
    /\ UNCHANGED <<idx, icon, padding, dirs, files, dirs0, files0, rvars>>

\* the file system main starts from: the base directory absent or present,
\* any of the mipmap directories already there, with or without an older
\* ic_launcher.png
InitMain ==
    /\ pc = "idle" /\ size = 0 /\ img = NoImage /\ mask = NoImage
    /\ returned = <<>> /\ calls = 0
    /\ mpc = "begin" /\ idx = 0 /\ icon = <<0, 0>> /\ padding = 0
    /\ out = <<>>
    /\ \E existing \in SUBSET MipmapDirs, base \in BOOLEAN :
        \E old \in SUBSET existing :
            /\ dirs = existing \cup
                        (IF base \/ existing # {} THEN {BasePath} ELSE {})
            /\ files = [q \in {<<d, "ic_launcher.png">> : d \in old} |-> "old"]
    /\ dirs0 = dirs
    /\ files0 = files

Main ==
    \/ MainStart
    \/ MainRender
    \/ MainMakedirs
    \/ MainMakedirsFails
    \/ MainSave
    \/ MainSaveFails
    \/ MainPrint
    \/ MainComplete

SpecMain == InitMain /\ [][Main]_vars

-----------------------------------------------------------------------------
(* Properties of create_voxmatrix_icon.                                    *)

Alpha(im, p) == im.px[p][4]
Colour(im, p) == <<im.px[p][1], im.px[p][2], im.px[p][3]>>

\* the image as it is just before the mask is applied
PreMask(n) == Glow(Glyph(Grid(Gradient(NewImage(n), n), n), n), n)

\* C1: for every positive size, the smallest ones included, the call
\* completes without raising and returns an image of exactly size x size.
C1_CompletesWithSize ==
    /\ pc # "raised"
    /\ pc = "done" => img.w = size /\ img.h = size

\* C2: applying the mask sets each pixel's final alpha to the minimum of its
\* alpha just before the mask step and the mask's value there, so a pixel
\* that was transparent before the mask step is transparent in the result.
C2_MaskTakesMinimum ==
    [][MaskStep => \A p \in Pix(size) :
            img'.px[p][4] = Min2(img.px[p][4], mask'.px[p])]_vars

\* C3: in the returned image every pixel in the mask's zero region, outside
\* the rounded rectangle of corner radius size // 8, has alpha 0 whatever
\* its alpha was before the mask was applied.
C3_OutsideMaskTransparent ==
    pc \in {"return", "done"} =>
        \A p \in Pix(size) : mask.px[p] = 0 => Alpha(img, p) = 0

\* a returned image with a pixel outside the rounded rectangle whose alpha
\* was not 0 before the mask
C3_Witness ==
    /\ pc = "done"
    /\ \E p \in Pix(size) :
        /\ mask.px[p] = 0
        /\ ~InRoundedRect(p, size, size \div 8)
        /\ Alpha(PreMask(size), p) # 0
        /\ Alpha(img, p) = 0

WithinDisc(p, n) ==
    (p[1] - n \div 2) * (p[1] - n \div 2) + (p[2] - n \div 2) * (p[2] - n \div 2)
        <= Radius(n) * Radius(n)

InGradientRange(c) ==
    /\ 100 <= c[1] /\ c[1] <= 138
    /\ 43 <= c[2] /\ c[2] <= 150
    /\ 195 <= c[3] /\ c[3] <= 255
    /\ c[4] = 255

\* C4: just before the mask is applied, every pixel whose distance to the
\* centre is <= radius has alpha 255 and R in [100,138], G in [43,150],
\* B in [195,255].
C4_DiscOpaqueBeforeMask ==
    pc = "mask" =>
        \A p \in Pix(size) : WithinDisc(p, size) => InGradientRange(img.px[p])

\* C4 as amended: the disc is opaque and within the gradient ranges right
\* after the gradient step, and just before the mask this still holds of
\* every pixel of the disc that no grid line, V stroke or glow stroke has
\* painted.
C4_DiscOpaqueAfterGradient ==
    /\ pc = "grid" =>
        \A p \in Pix(size) : WithinDisc(p, size) => InGradientRange(img.px[p])
    /\ pc = "mask" =>
        \A p \in Pix(size) \ (GridPixels(size) \cup VPixels(size)
                                \cup GlowPixels(size)) :
            WithinDisc(p, size) => InGradientRange(img.px[p])

\* before the mask: a disc pixel on the boundary circle that kept its
\* gradient colour, and a disc pixel that a line has repainted
C4_Witness ==
    /\ pc = "mask"
    /\ \E p \in Pix(size) :
        /\ Dist2(p, size) = Radius(size) * Radius(size)
        /\ Dist2(p, size) > 0
        /\ InGradientRange(img.px[p])
    /\ \E p \in Pix(size) :
        WithinDisc(p, size) /\ ~InGradientRange(img.px[p])

OnGridLine(p, n) ==
    \/ /\ p[1] \in GridRange(n)
       /\ n \div 10 <= p[2] /\ p[2] <= n - n \div 10
    \/ /\ p[2] \in GridRange(n)
       /\ n \div 10 <= p[1] /\ p[1] <= n - n \div 10

\* C8: drawing the grid lines does not change the alpha of any pixel they
\* cover: outside the disc it is still 0 after the grid step, inside 255.
C8_GridKeepsAlpha ==
    [][GridStep => \A p \in Pix(size) : img'.px[p][4] = img.px[p][4]]_vars

\* C8 as amended: the grid step stores the grid colour, alpha 30 included,
\* in every pixel a grid line covers, inside or outside the disc, and
\* leaves every other pixel as it was.
C8_GridStoresItsAlpha ==
    [][GridStep => \A p \in Pix(size) :
            IF OnGridLine(p, size)
            THEN img'.px[p] = <<255, 255, 255, 30>>
            ELSE img'.px[p] = img.px[p]]_vars

\* right after the grid step: a covered pixel outside the disc and a
\* covered pixel inside it, both with alpha 30, and an uncovered disc pixel
C8_Witness ==
    /\ pc = "glyph"
    /\ \E p \in Pix(size) :
        OnGridLine(p, size) /\ ~WithinDisc(p, size) /\ Alpha(img, p) = 30
    /\ \E p \in Pix(size) :
        OnGridLine(p, size) /\ WithinDisc(p, size) /\ Alpha(img, p) = 30
    /\ \E p \in Pix(size) :
        ~OnGridLine(p, size) /\ WithinDisc(p, size) /\ Alpha(img, p) = 255

\* C9: two calls with the same size, in any order and with other calls in
\* between, return identical pixel buffers.
C9_SameSizeSameImage ==
    \A i, j \in 1 .. Len(returned) :
        returned[i].w = returned[j].w => returned[i] = returned[j]

\* three calls completed, the first and the third with the same size and
\* the second with a larger one
C9_Witness ==
    /\ Len(returned) = 3
    /\ returned[1].w = returned[3].w
    /\ returned[2].w > returned[1].w
    /\ \E p \in DOMAIN returned[1].px : Alpha(returned[1], p) = 255

\* C10: the glow is drawn after the solid V strokes and covers every pixel
\* they painted, so in the returned image every pixel of a solid stroke
\* carries the glow colour (100,200,255), none keeps (255,255,255).
C10_GlowCoversGlyph ==
    pc = "done" =>
        \A p \in VPixels(size) : Colour(img, p) = <<100, 200, 255>>

\* C10 as amended: in the returned image every pixel the glow strokes paint
\* carries the glow colour, and the pixels of the solid strokes that lie
\* outside the glow's polygons keep the solid colour (255,255,255).
C10_GlowOverGlyph ==
    pc = "done" =>
        /\ \A p \in GlowPixels(size) : Colour(img, p) = <<100, 200, 255>>
        /\ \A p \in VPixels(size) \ GlowPixels(size) :
            Colour(img, p) = <<255, 255, 255>>

\* a returned image with a solid stroke pixel the glow repainted and one
\* the glow did not reach
C10_Witness ==
    /\ pc = "done"
    /\ VPixels(size) \cap GlowPixels(size) # {}
    /\ VPixels(size) \ GlowPixels(size) # {}

-----------------------------------------------------------------------------
(* Properties of main.                                                     *)

Lines == {out[i] : i \in 1 .. Len(out)}
FolderOf(j) == ICON_SIZES[j].folder
SizeOf(j) == ICON_SIZES[j].size

C5_Expected ==
    [p \in {<< <<"res", "mipmap", f>>, "ic_launcher.png">> :
              f \in {"mdpi", "hdpi", "xhdpi", "xxhdpi", "xxxhdpi"}} |->
        CASE p[1][3] = "mdpi" -> <<48, 48>>
          [] p[1][3] = "hdpi" -> <<72, 72>>
          [] p[1][3] = "xhdpi" -> <<96, 96>>
          [] p[1][3] = "xxhdpi" -> <<144, 144>>
          [] p[1][3] = "xxxhdpi" -> <<192, 192>>]

\* C5: with no file system failure and a base directory that was empty or
\* absent, main ends with exactly the five mipmap directories, each holding
\* exactly one file ic_launcher.png of the size of its table entry.
C5_FiveIcons ==
    (mpc = "exit" /\ dirs0 \subseteq {BasePath}) =>
        /\ dirs \ {BasePath} = {p[1] : p \in DOMAIN C5_Expected}
        /\ BasePath \in dirs
        /\ files = C5_Expected

\* main has finished from an absent base directory
C5_Witness == mpc = "exit" /\ dirs0 = {} /\ Len(out) = 8

\* C6: when makedirs or save fails for the k-th entry the run ends there:
\* no later entry gets a directory, a file or a progress line, the
\* completion message is not printed, and the files written for the entries
\* before k stay in place.
C6_FailureIsFatal ==
    mpc = "crashed" =>
        /\ ~ENABLED Main
        /\ icon = <<SizeOf(idx), SizeOf(idx)>>
        /\ <<"complete">> \notin Lines
        /\ \A j \in idx .. NumEntries :
            <<"created", FolderOf(j), SizeOf(j)>> \notin Lines
        /\ \A j \in (idx + 1) .. NumEntries :
            /\ MipmapPath(FolderOf(j)) \in dirs
                 <=> MipmapPath(FolderOf(j)) \in dirs0
            /\ OutputPath(FolderOf(j)) \in DOMAIN files
                 <=> OutputPath(FolderOf(j)) \in DOMAIN files0
            /\ OutputPath(FolderOf(j)) \in DOMAIN files =>
                 files[OutputPath(FolderOf(j))] = files0[OutputPath(FolderOf(j))]
        /\ \A j \in 1 .. (idx - 1) :
            /\ OutputPath(FolderOf(j)) \in DOMAIN files
            /\ files[OutputPath(FolderOf(j))] = <<SizeOf(j), SizeOf(j)>>

\* a failure at the third entry, after two icons were written, from an
\* absent base directory
C6_Witness ==
    /\ mpc = "crashed"
    /\ idx = 3
    /\ dirs0 = {}
    /\ DOMAIN files = {OutputPath("mdpi"), OutputPath("hdpi")}

RoundTenth(n) == (n + 5) \div 10

\* C7: for every size of the table the padding the render uses equals
\* round(size * 0.1), size * 0.1 rounded to the nearest integer.
C7_PaddingRounded ==
    mpc \in {"makedirs", "save", "print"} =>
        padding = RoundTenth(SizeOf(idx))

\* C7 as amended: the padding is size * 0.1 truncated to an integer, that
\* is 4, 7, 9, 14 and 19 for the sizes 48, 72, 96, 144 and 192.
C7_PaddingTruncated ==
    mpc \in {"makedirs", "save", "print"} =>
        /\ padding * 10 <= SizeOf(idx)
        /\ SizeOf(idx) < (padding + 1) * 10
        /\ <<SizeOf(idx), padding>> \in
             {<<48, 4>>, <<72, 7>>, <<96, 9>>, <<144, 14>>, <<192, 19>>}

\* the render of the 96 pixel entry has computed a padding of 9, not 10
C7_Witness == mpc = "makedirs" /\ SizeOf(idx) = 96 /\ padding = 9

=============================================================================
